---------------------------- MODULE Spec2Model ----------------------------
(***************************************************************************)
(* Model of event_comparison_app.py: the Streamlit session and its saved   *)
(* blob, parse_dates, is_community_college, calculate_kpis and             *)
(* create_daily_registration_chart.                                        *)
(*                                                                         *)
(* Text is modelled as a sequence of one-character strings, so that        *)
(* upper(), strip(), split(), `in` and endswith() are computed, not        *)
(* assumed.                                                                *)
(***************************************************************************)
EXTENDS Integers, Sequences, FiniteSets, TLC

VARIABLES
    name,       \* is_community_college: the institution name passed in
    verdict,    \* is_community_college: "none" before the call, then "yes"/"no"
    rawdf,      \* parse_dates: the dataframe read from the CSV file
    parsed,     \* parse_dates: whether it was called, and what it returned
    kdf1,       \* analysis section: session_state.df1, parsed
    kdf2,       \* analysis section: session_state.df2, parsed
    shown,      \* analysis section: the settings chosen, the KPIs and the traces
    session,    \* st.session_state of each user: the eight fields of lines 29-44
    file2,      \* st.session_state.file2 of each user: the file held by the second uploader
    event_data, \* the rows of the Supabase table event_data
    saving,     \* each user's call of save_data_to_database: where it is, and its data
    written,    \* the blob of the last request that wrote to the table
    last        \* each user's last step: what it was, whether it succeeded, the
                \* session before it, the blob it read

ccVars == <<name, verdict>>
dateVars == <<rawdf, parsed>>
kpiVars == <<kdf1, kdf2, shown>>
sessVars == <<session, file2, event_data, saving, written, last>>
vars == <<name, verdict, rawdf, parsed, kdf1, kdf2, shown, session, file2, event_data, saving, written, last>>

\* a missing text value (None, or pandas' NaN in a column of strings): a
\* one-element sequence whose element is no character, so it equals no text
NaN == <<"NaN">>

-----------------------------------------------------------------------------
(* Text helpers: Python str methods on sequences of characters.            *)

UpperChar(c) ==
    CASE c = "a" -> "A" [] c = "b" -> "B" [] c = "c" -> "C" [] c = "d" -> "D"
      [] c = "e" -> "E" [] c = "f" -> "F" [] c = "g" -> "G" [] c = "h" -> "H"
      [] c = "i" -> "I" [] c = "j" -> "J" [] c = "k" -> "K" [] c = "l" -> "L"
      [] c = "m" -> "M" [] c = "n" -> "N" [] c = "o" -> "O" [] c = "p" -> "P"
      [] c = "q" -> "Q" [] c = "r" -> "R" [] c = "s" -> "S" [] c = "t" -> "T"
      [] c = "u" -> "U" [] c = "v" -> "V" [] c = "w" -> "W" [] c = "x" -> "X"
      [] c = "y" -> "Y" [] c = "z" -> "Z" [] OTHER -> c

LowerChar(c) ==
    CASE c = "A" -> "a" [] c = "B" -> "b" [] c = "C" -> "c" [] c = "D" -> "d"
      [] c = "E" -> "e" [] c = "F" -> "f" [] c = "G" -> "g" [] c = "H" -> "h"
      [] c = "I" -> "i" [] c = "J" -> "j" [] c = "K" -> "k" [] c = "L" -> "l"
      [] c = "M" -> "m" [] c = "N" -> "n" [] c = "O" -> "o" [] c = "P" -> "p"
      [] c = "Q" -> "q" [] c = "R" -> "r" [] c = "S" -> "s" [] c = "T" -> "t"
      [] c = "U" -> "u" [] c = "V" -> "v" [] c = "W" -> "w" [] c = "X" -> "x"
      [] c = "Y" -> "y" [] c = "Z" -> "z" [] OTHER -> c

\* str.upper()
Upper(s) == [i \in 1..Len(s) |-> UpperChar(s[i])]

\* str.lower()
Lower(s) == [i \in 1..Len(s) |-> LowerChar(s[i])]

\* the characters str.strip() and str.split() treat as whitespace
IsSpace(c) == c \in {" ", "\t"}

RECURSIVE LStrip(_)
LStrip(s) ==
    IF s # <<>> /\ IsSpace(Head(s)) THEN LStrip(Tail(s)) ELSE s

RECURSIVE RStrip(_)
RStrip(s) ==
    IF s # <<>> /\ IsSpace(s[Len(s)]) THEN RStrip(SubSeq(s, 1, Len(s) - 1)) ELSE s

\* a plausible slip: only the leading whitespace is removed
LStripOnly(s) == LStrip(s)

\* str.strip()
Strip(s) == RStrip(LStrip(s))

\* `p in s` for two strings
Contains(s, p) ==
    \E i \in 1..(Len(s) - Len(p) + 1) : SubSeq(s, i, i + Len(p) - 1) = p

\* s.endswith(p)
EndsWith(s, p) ==
    /\ Len(p) <= Len(s)
    /\ SubSeq(s, Len(s) - Len(p) + 1, Len(s)) = p

\* str.split(): the maximal runs of non-whitespace characters, in order
RECURSIVE SplitFrom(_, _, _)
SplitFrom(s, i, word) ==
    IF i > Len(s)
    THEN IF word = <<>> THEN <<>> ELSE <<word>>
    ELSE IF IsSpace(s[i])
         THEN (IF word = <<>> THEN <<>> ELSE <<word>>) \o SplitFrom(s, i + 1, <<>>)
         ELSE SplitFrom(s, i + 1, Append(word, s[i]))

Split(s) == SplitFrom(s, 1, <<>>)

\* `x in words` for a list
InList(x, list) == \E i \in 1..Len(list) : list[i] = x

-----------------------------------------------------------------------------
(* Module constants of the program.                                        *)

KNOWN_COMMUNITY_COLLEGES ==
    { <<"M","i","a","m","i"," ","D","a","d","e"," ","C","o","l","l","e","g","e">>,
      <<"H","o","u","s","t","o","n"," ","C","o","m","m","u","n","i","t","y"," ","C","o","l","l","e","g","e">>,
      <<"A","u","s","t","i","n"," ","C","o","m","m","u","n","i","t","y"," ","C","o","l","l","e","g","e"," ","D","i","s","t","r","i","c","t">>,
      <<"N","o","r","t","h","e","r","n"," ","V","i","r","g","i","n","i","a"," ","C","o","m","m","u","n","i","t","y"," ","C","o","l","l","e","g","e">>,
      <<"C","i","t","y"," ","C","o","l","l","e","g","e"," ","o","f"," ","S","a","n"," ","F","r","a","n","c","i","s","c","o">>,
      <<"S","a","n","t","a"," ","M","o","n","i","c","a"," ","C","o","l","l","e","g","e">>,
      <<"L","o","n","e"," ","S","t","a","r"," ","C","o","l","l","e","g","e"," ","S","y","s","t","e","m">>,
      <<"D","a","l","l","a","s"," ","C","o","u","n","t","y"," ","C","o","m","m","u","n","i","t","y"," ","C","o","l","l","e","g","e"," ","D","i","s","t","r","i","c","t">>,
      <<"M","a","r","i","c","o","p","a"," ","C","o","u","n","t","y"," ","C","o","m","m","u","n","i","t","y"," ","C","o","l","l","e","g","e"," ","D","i","s","t","r","i","c","t">>,
      <<"L","o","s"," ","A","n","g","e","l","e","s"," ","C","o","m","m","u","n","i","t","y"," ","C","o","l","l","e","g","e"," ","D","i","s","t","r","i","c","t">>,
      <<"P","a","s","a","d","e","n","a"," ","C","i","t","y"," ","C","o","l","l","e","g","e">>,
      <<"O","r","a","n","g","e"," ","C","o","a","s","t"," ","C","o","l","l","e","g","e">>,
      <<"D","e"," ","A","n","z","a"," ","C","o","l","l","e","g","e">>,
      <<"F","o","o","t","h","i","l","l"," ","C","o","l","l","e","g","e">>,
      <<"S","a","n","t","a"," ","B","a","r","b","a","r","a"," ","C","i","t","y"," ","C","o","l","l","e","g","e">>,
      <<"G","l","e","n","d","a","l","e"," ","C","o","m","m","u","n","i","t","y"," ","C","o","l","l","e","g","e">>,
      <<"C","o","l","l","e","g","e"," ","o","f"," ","t","h","e"," ","C","a","n","y","o","n","s">>,
      <<"M","t","."," ","S","a","n"," ","A","n","t","o","n","i","o"," ","C","o","l","l","e","g","e">>,
      <<"C","e","r","r","i","t","o","s"," ","C","o","l","l","e","g","e">>,
      <<"L","o","n","g"," ","B","e","a","c","h"," ","C","i","t","y"," ","C","o","l","l","e","g","e">>,
      <<"T","a","r","r","a","n","t"," ","C","o","u","n","t","y"," ","C","o","l","l","e","g","e">>,
      <<"S","a","n"," ","J","a","c","i","n","t","o"," ","C","o","l","l","e","g","e">>,
      <<"C","o","l","l","i","n"," ","C","o","l","l","e","g","e">>,
      <<"E","l"," ","P","a","s","o"," ","C","o","m","m","u","n","i","t","y"," ","C","o","l","l","e","g","e">>,
      <<"S","a","n"," ","A","n","t","o","n","i","o"," ","C","o","l","l","e","g","e">>,
      <<"A","l","a","m","o"," ","C","o","m","m","u","n","i","t","y"," ","C","o","l","l","e","g","e"," ","D","i","s","t","r","i","c","t">>,
      <<"B","r","o","w","a","r","d"," ","C","o","l","l","e","g","e">>,
      <<"V","a","l","e","n","c","i","a"," ","C","o","l","l","e","g","e">>,
      <<"H","i","l","l","s","b","o","r","o","u","g","h"," ","C","o","m","m","u","n","i","t","y"," ","C","o","l","l","e","g","e">>,
      <<"P","a","l","m"," ","B","e","a","c","h"," ","S","t","a","t","e"," ","C","o","l","l","e","g","e">>,
      <<"S","e","m","i","n","o","l","e"," ","S","t","a","t","e"," ","C","o","l","l","e","g","e"," ","o","f"," ","F","l","o","r","i","d","a">>,
      <<"S","t","."," ","P","e","t","e","r","s","b","u","r","g"," ","C","o","l","l","e","g","e">>,
      <<"C","U","N","Y"," ","B","o","r","o","u","g","h"," ","o","f"," ","M","a","n","h","a","t","t","a","n"," ","C","o","m","m","u","n","i","t","y"," ","C","o","l","l","e","g","e">>,
      <<"C","U","N","Y"," ","L","a","G","u","a","r","d","i","a"," ","C","o","m","m","u","n","i","t","y"," ","C","o","l","l","e","g","e">>,
      <<"N","a","s","s","a","u"," ","C","o","m","m","u","n","i","t","y"," ","C","o","l","l","e","g","e">>,
      <<"S","u","f","f","o","l","k"," ","C","o","u","n","t","y"," ","C","o","m","m","u","n","i","t","y"," ","C","o","l","l","e","g","e">>,
      <<"M","o","n","r","o","e"," ","C","o","m","m","u","n","i","t","y"," ","C","o","l","l","e","g","e">>,
      <<"C","o","l","l","e","g","e"," ","o","f"," ","D","u","P","a","g","e">>,
      <<"H","a","r","p","e","r"," ","C","o","l","l","e","g","e">>,
      <<"O","a","k","t","o","n"," ","C","o","m","m","u","n","i","t","y"," ","C","o","l","l","e","g","e">>,
      <<"J","o","l","i","e","t"," ","J","u","n","i","o","r"," ","C","o","l","l","e","g","e">>,
      <<"T","r","i","t","o","n"," ","C","o","l","l","e","g","e">>,
      <<"C","o","m","m","u","n","i","t","y"," ","C","o","l","l","e","g","e"," ","o","f"," ","P","h","i","l","a","d","e","l","p","h","i","a">>,
      <<"M","o","n","t","g","o","m","e","r","y"," ","C","o","l","l","e","g","e">>,
      <<"C","u","y","a","h","o","g","a"," ","C","o","m","m","u","n","i","t","y"," ","C","o","l","l","e","g","e">>,
      <<"W","a","k","e"," ","T","e","c","h","n","i","c","a","l"," ","C","o","m","m","u","n","i","t","y"," ","C","o","l","l","e","g","e">>,
      <<"I","v","y"," ","T","e","c","h"," ","C","o","m","m","u","n","i","t","y"," ","C","o","l","l","e","g","e">>,
      <<"P","o","r","t","l","a","n","d"," ","C","o","m","m","u","n","i","t","y"," ","C","o","l","l","e","g","e">>,
      <<"M","e","s","a"," ","C","o","m","m","u","n","i","t","y"," ","C","o","l","l","e","g","e">>,
      <<"S","a","l","t"," ","L","a","k","e"," ","C","o","m","m","u","n","i","t","y"," ","C","o","l","l","e","g","e">>,
      <<"F","r","o","n","t"," ","R","a","n","g","e"," ","C","o","m","m","u","n","i","t","y"," ","C","o","l","l","e","g","e">>,
      <<"K","i","r","k","w","o","o","d"," ","C","o","m","m","u","n","i","t","y"," ","C","o","l","l","e","g","e">>,
      <<"J","o","h","n","s","o","n"," ","C","o","u","n","t","y"," ","C","o","m","m","u","n","i","t","y"," ","C","o","l","l","e","g","e">> }

CC_PATTERNS ==
    << <<"C","o","m","m","u","n","i","t","y"," ","C","o","l","l","e","g","e">>,
       <<"C","C">>,
       <<"T","e","c","h","n","i","c","a","l"," ","C","o","l","l","e","g","e">>,
       <<"J","u","n","i","o","r"," ","C","o","l","l","e","g","e">>,
       <<"C","o","m","m"," ","C","o","l","l">>,
       <<"C","o","m","m","."," ","C","o","l","l","e","g","e">>,
       <<"T","e","c","h"," ","C","o","l","l","e","g","e">>,
       <<"C","i","t","y"," ","C","o","l","l","e","g","e">>,
       <<"C","o","u","n","t","y"," ","C","o","l","l","e","g","e">> >>

SENIOR_KEYWORDS ==
    << <<"C","h","i","e","f">>,
       <<"V","P">>,
       <<"P","r","e","s","i","d","e","n","t">>,
       <<"D","i","r","e","c","t","o","r">>,
       <<"H","e","a","d">>,
       <<"F","o","u","n","d","e","r">>,
       <<"D","e","a","n">> >>

-----------------------------------------------------------------------------
(* is_community_college                                                    *)

CC == <<"C","C">>

\* a plausible slip: any "CC" inside the name counts, as for the other patterns
IsCCAbbreviationAnywhere(name_upper) == Contains(name_upper, CC)

\* line 193: the test that a "CC" inside the name is an abbreviation
IsCCAbbreviation(name_upper) ==
    \/ InList(CC, Split(name_upper))
    \/ EndsWith(name_upper, <<" ","C","C">>)
    \/ EndsWith(name_upper, CC)

\* lines 187-196: the loop over CC_PATTERNS from pattern number i on; TRUE when
\* the loop returns True, FALSE when it runs off the end of the list
RECURSIVE PatternLoop(_, _)
PatternLoop(name_upper, i) ==
    IF i > Len(CC_PATTERNS) THEN FALSE
    ELSE IF Contains(name_upper, Upper(CC_PATTERNS[i]))
         THEN IF Upper(CC_PATTERNS[i]) = CC /\ Contains(name_upper, CC)
              THEN IF IsCCAbbreviation(name_upper)
                   THEN TRUE
                   ELSE PatternLoop(name_upper, i + 1)
              ELSE TRUE
         ELSE PatternLoop(name_upper, i + 1)

\* known_cc.upper() for every known_cc of KNOWN_COMMUNITY_COLLEGES
KnownUpper == { Upper(k) : k \in KNOWN_COMMUNITY_COLLEGES }

is_community_college(institution_name) ==
    IF institution_name = NaN \/ institution_name = <<>> THEN FALSE
    ELSE LET name_upper == Strip(Upper(institution_name))
         IN  IF name_upper \in KnownUpper THEN TRUE
             ELSE PatternLoop(name_upper, 1)


-----------------------------------------------------------------------------
(* Dataframes as read from a CSV file, and parse_dates.                    *)
(*                                                                         *)
(* A dataframe is a function from its column names to the column's cells,  *)
(* top to bottom.  A cell of a date column as read from the file is the    *)
(* text's shape and its three numbers:                                     *)
(*   "dash"   a-b-c            2024-03-04                                  *)
(*   "slash"  a/b/c            03/04/2024, 13/04/24                        *)
(*   "stamp"  a-b-c and a time 2024-03-04T00:00:00.000                     *)
(*   "junk"   text that is no date                                         *)
(*   "null"   an empty field (NaN)                                         *)
(* A parsed cell is a Timestamp [y, m, d], or NaT.                         *)

NoDf == [none |-> TRUE]
NoCol == "<None>"
NaT == [y |-> 0, m |-> 0, d |-> 0]

NullCell == [shape |-> "null", a |-> 0, b |-> 0, c |-> 0]
JunkCell == [shape |-> "junk", a |-> 0, b |-> 0, c |-> 0]

IsLeap(y) == (y % 4 = 0 /\ y % 100 # 0) \/ y % 400 = 0

DaysInMonth(y, m) ==
    IF m \in {4, 6, 9, 11} THEN 30
    ELSE IF m = 2 THEN (IF IsLeap(y) THEN 29 ELSE 28)
    ELSE 31

ValidDate(y, m, d) == m \in 1..12 /\ d \in 1..DaysInMonth(y, m)

\* %y: two digits, 69-99 in the 1900s, 00-68 in the 2000s
TwoDigitYear(c) == IF c < 69 THEN 2000 + c ELSE 1900 + c

ParseFailed == [y |-> -1, m |-> -1, d |-> -1]

Stamp(y, m, d) == IF ValidDate(y, m, d) THEN [y |-> y, m |-> m, d |-> d] ELSE ParseFailed

\* line 325
date_formats == <<"%Y-%m-%d", "%m/%d/%Y", "%m/%d/%y", "%d/%m/%Y", "%d/%m/%y">>

\* strptime of one cell under one format: the Timestamp, NaT for an empty
\* field, ParseFailed when the text does not match the format (%Y takes four
\* digits, %y two) or names no calendar day
ParseCell(cell, fmt) ==
    IF cell.shape = "null" THEN NaT
    ELSE IF fmt = "%Y-%m-%d"
         THEN IF cell.shape = "dash" /\ cell.a >= 1000 THEN Stamp(cell.a, cell.b, cell.c)
              ELSE ParseFailed
    ELSE IF cell.shape # "slash" THEN ParseFailed
    ELSE IF fmt = "%m/%d/%Y"
         THEN IF cell.c >= 1000 THEN Stamp(cell.c, cell.a, cell.b) ELSE ParseFailed
    ELSE IF fmt = "%m/%d/%y"
         THEN IF cell.c < 100 THEN Stamp(TwoDigitYear(cell.c), cell.a, cell.b) ELSE ParseFailed
    ELSE IF fmt = "%d/%m/%Y"
         THEN IF cell.c >= 1000 THEN Stamp(cell.c, cell.b, cell.a) ELSE ParseFailed
    ELSE IF cell.c < 100 THEN Stamp(TwoDigitYear(cell.c), cell.b, cell.a) ELSE ParseFailed

\* format='mixed', dayfirst=False: each cell on its own; a/b/c is month first
\* when that is a calendar day, and day first otherwise
ParseCellMixed(cell) ==
    IF cell.shape = "null" THEN NaT
    ELSE IF cell.shape \in {"dash", "stamp"} THEN Stamp(cell.a, cell.b, cell.c)
    ELSE IF cell.shape = "slash"
         THEN LET year == IF cell.c < 100 THEN TwoDigitYear(cell.c) ELSE cell.c
              IN  IF ValidDate(year, cell.a, cell.b)
                  THEN Stamp(year, cell.a, cell.b)
                  ELSE Stamp(year, cell.b, cell.a)
    ELSE ParseFailed

\* pd.to_datetime(column, format=fmt): every cell under the one format
ToDatetime(column, fmt) == [i \in 1..Len(column) |-> ParseCell(column[i], fmt)]

\* pd.to_datetime(column, format='mixed', dayfirst=False)
ToDatetimeMixed(column) == [i \in 1..Len(column) |-> ParseCellMixed(column[i])]

\* pd.to_datetime raises
Raises(timestamps) == \E i \in 1..Len(timestamps) : timestamps[i] = ParseFailed

\* lines 303-308
possible_date_columns ==
    << "Last Registration Date (GMT)",
       "Last Registration Date (GMT-05:00) Eastern [US & Canada]",
       "Original Response Date (GMT)",
       "Original Response Date (GMT-05:00) Eastern [US & Canada]",
       "Registration Date", "Date", "Created Date", "Registered Date",
       "Registration_Date", "registration_date", "Created", "Timestamp" >>

\* a plausible slip: the search runs from the end of the list
RECURSIVE FindDateColumnFromEnd(_, _)
FindDateColumnFromEnd(columns, i) ==
    IF i > Len(possible_date_columns) THEN NoCol
    ELSE LET later == FindDateColumnFromEnd(columns, i + 1)
         IN  IF later # NoCol THEN later
             ELSE IF possible_date_columns[i] \in columns THEN possible_date_columns[i]
             ELSE NoCol

\* lines 310-315: the loop over possible_date_columns from number i on
RECURSIVE FindDateColumn(_, _)
FindDateColumn(columns, i) ==
    IF i > Len(possible_date_columns) THEN NoCol
    ELSE IF possible_date_columns[i] \in columns THEN possible_date_columns[i]
    ELSE FindDateColumn(columns, i + 1)

\* every format raised
NoFormat == [ok |-> FALSE, column |-> <<>>]

\* a plausible slip: day-first formats listed before month-first ones
TryFormatsDayFirst(column, i) ==
    LET order == <<"%Y-%m-%d", "%d/%m/%Y", "%d/%m/%y", "%m/%d/%Y", "%m/%d/%y">>
        ok == { k \in 1..Len(order) : ~Raises(ToDatetime(column, order[k])) }
    IN  IF ok = {} THEN NoFormat
        ELSE [ok |-> TRUE,
              column |-> ToDatetime(column, order[CHOOSE k \in ok : \A j \in ok : k <= j])]

\* lines 327-335: the loop over date_formats from number i on: the parsed
\* column under the first format that does not raise
RECURSIVE TryFormats(_, _)
TryFormats(column, i) ==
    IF i > Len(date_formats) THEN NoFormat
    ELSE IF ~Raises(ToDatetime(column, date_formats[i]))
         THEN [ok |-> TRUE, column |-> ToDatetime(column, date_formats[i])]
         ELSE TryFormats(column, i + 1)

\* the result (None, None)
NoneNone == [df |-> NoDf, col |-> NoCol]

\* a plausible slip: cells that do not parse become NaT and the rest is kept
ParseFallbackLenient(df, date_column) ==
    [df |-> [df EXCEPT ![date_column] =
                [i \in 1..Len(df[date_column]) |->
                    IF ParseCellMixed(df[date_column][i]) = ParseFailed
                    THEN NaT ELSE ParseCellMixed(df[date_column][i])]],
     col |-> date_column]

\* lines 337-346
ParseFallback(df, date_column) ==
    IF Raises(ToDatetimeMixed(df[date_column])) THEN NoneNone
    ELSE [df |-> [df EXCEPT ![date_column] = ToDatetimeMixed(df[date_column])],
          col |-> date_column]

\* lines 297-346; the dataframe returned is the one passed in, with the date
\* column replaced by its Timestamps
parse_dates(df) ==
    LET date_col_found == FindDateColumn(DOMAIN df, 1)
    IN  IF date_col_found = NoCol THEN NoneNone
        ELSE LET fixed == TryFormats(df[date_col_found], 1)
             IN  IF fixed.ok
                 THEN [df |-> [df EXCEPT ![date_col_found] = fixed.column],
                       col |-> date_col_found]
                 ELSE ParseFallback(df, date_col_found)

-----------------------------------------------------------------------------
(* calculate_kpis.  Here a dataframe is its set of column names and its    *)
(* rows; a row gives a cell for each of the columns the function reads     *)
(* (NaN where the row's field is empty or the dataframe lacks the column). *)
(* The date column holds what parse_dates left there, read as a day        *)
(* number: <<n>> for a Timestamp on day n, <<>> for NaT.                   *)

\* Series.fillna('')
FillNa(cell) == IF cell = NaN THEN <<>> ELSE cell

\* Series.str.contains(p1|p2|..., case=False, na=False) for one cell
ContainsAny(cell, patterns) ==
    /\ cell # NaN
    /\ \E p \in patterns : Contains(Lower(cell), Lower(p))

\* df[mask]: the rows whose mask entry is TRUE, in order, from row i on
RECURSIVE Keep(_, _, _)
Keep(rows, mask, i) ==
    IF i > Len(rows) THEN <<>>
    ELSE IF mask[i] THEN <<rows[i]>> \o Keep(rows, mask, i + 1)
    ELSE Keep(rows, mask, i + 1)

\* a plausible slip: the comparison is strict
UpToCutoffStrict(rows, cutoff_date) ==
    Keep(rows, [i \in 1..Len(rows) |-> rows[i].date # <<>> /\ rows[i].date[1] < cutoff_date], 1)

\* a plausible slip: the comparison is the wrong way round
AfterCutoff(rows, cutoff_date) ==
    Keep(rows, [i \in 1..Len(rows) |-> rows[i].date # <<>> /\ rows[i].date[1] >= cutoff_date], 1)

\* line 361: df[df[date_column] <= cutoff_date]; NaT compares False
UpToCutoff(rows, cutoff_date) ==
    Keep(rows, [i \in 1..Len(rows) |-> rows[i].date # <<>> /\ rows[i].date[1] <= cutoff_date], 1)

\* a plausible slip: the job classification filter is not applied
JobFilterIgnored(rows, columns, job_filter) == rows

\* lines 364-365: job_filter is None (NaN here) or "All" for no filter
ApplyJobFilter(rows, columns, job_filter) ==
    IF job_filter # NaN /\ job_filter # <<>> /\ job_filter # <<"A","l","l">>
       /\ "Job Classification" \in columns
    THEN Keep(rows, [i \in 1..Len(rows) |-> rows[i].job = job_filter], 1)
    ELSE rows

HE_PATTERNS ==
    { <<"H","E">>, <<"H","i","g","h","e","r"," ","E","d">>,
      <<"H","i","g","h","e","r"," ","E","d","u","c","a","t","i","o","n">> }

K12_PATTERNS == { <<"K","-","1","2">>, <<"K","1","2">> }

STARTUP_PATTERNS ==
    { <<"S","t","a","r","t"," ","U","p","/","G","r","o","w","t","h"," ","S","t","a","g","e"," ","C","o","m","p","a","n","y">>,
      <<"C","o","r","p","o","r","a","t","e"," ","E","n","t","e","r","p","r","i","s","e">> }

\* a plausible slip: 'female' is left out of the list
WomenValuesWithoutFemale == { <<"w","o","m","a","n">>, <<"f">> }

\* lines 397, 399
WOMEN_VALUES == { <<"f","e","m","a","l","e">>, <<"w","o","m","a","n">>, <<"f">> }

COLLEGE == <<"C","o","l","l","e","g","e">>

\* lines 437-443
us_state_codes ==
    {
      <<"A","L">>, <<"A","K">>, <<"A","Z">>, <<"A","R">>, <<"C","A">>,
      <<"C","O">>, <<"C","T">>, <<"D","E">>, <<"F","L">>, <<"G","A">>,
      <<"H","I">>, <<"I","D">>, <<"I","L">>, <<"I","N">>, <<"I","A">>,
      <<"K","S">>, <<"K","Y">>, <<"L","A">>, <<"M","E">>, <<"M","D">>,
      <<"M","A">>, <<"M","I">>, <<"M","N">>, <<"M","S">>, <<"M","O">>,
      <<"M","T">>, <<"N","E">>, <<"N","V">>, <<"N","H">>, <<"N","J">>,
      <<"N","M">>, <<"N","Y">>, <<"N","C">>, <<"N","D">>, <<"O","H">>,
      <<"O","K">>, <<"O","R">>, <<"P","A">>, <<"R","I">>, <<"S","C">>,
      <<"S","D">>, <<"T","N">>, <<"T","X">>, <<"U","T">>, <<"V","T">>,
      <<"V","A">>, <<"W","A">>, <<"W","V">>, <<"W","I">>, <<"W","Y">>,
      <<"D","C">> }

\* lines 371-377: institution_filter is "None", "All", "Higher Education" or "K-12"
ApplyInstitutionFilter(rows, columns, institution_filter) ==
    IF institution_filter \notin {"None", "All"} /\ "Job Classification" \in columns
    THEN IF institution_filter = "Higher Education"
         THEN Keep(rows, [i \in 1..Len(rows) |-> ContainsAny(rows[i].job, HE_PATTERNS)], 1)
         ELSE IF institution_filter = "K-12"
         THEN Keep(rows, [i \in 1..Len(rows) |-> ContainsAny(rows[i].job, K12_PATTERNS)], 1)
         ELSE rows
    ELSE rows

\* the keywords of SENIOR_KEYWORDS, as a set
SeniorKeywordSet == { SENIOR_KEYWORDS[i] : i \in 1..Len(SENIOR_KEYWORDS) }

\* Series.dropna().unique(): the distinct cells that are not NaN
UniqueNotNa(cells) == { cells[i] : i \in 1..Len(cells) } \ {NaN}

Column(rows, field) == [i \in 1..Len(rows) |-> rows[i][field]]

\* what a call that raised leaves in place of its result, and what stands in
\* for the result of a call the run never came to
Raised == [raised |-> TRUE]
NotReached == [raised |-> FALSE]

\* pd.read_csv gives a column without a single value the dtype float64, and a
\* column with a value (or of a file without rows) the dtype object
IsFloatColumn(df, field) ==
    /\ Len(df.rows) > 0
    /\ \A i \in 1..Len(df.rows) : df.rows[i][field] = NaN

\* Series.str raises AttributeError on a float64 column.  fillna('') turns a
\* float64 column into an object column when it has a row to fill, and
\* leaves a column without rows as it is
StrRaises(df, field, rows, filled) ==
    /\ IsFloatColumn(df, field)
    /\ filled => rows = <<>>

\* a plausible slip: no separate dataframe, the institution type filter is
\* applied to filtered_df itself
SameDataframe(filtered_df, inst_filtered_df) == inst_filtered_df

\* line 368: the institution type filter is applied to a copy, so filtered_df
\* stays what the cutoff and the job classification filter left
SeparateCopy(filtered_df, inst_filtered_df) == filtered_df

\* lines 355-472
calculate_kpis(df, days_before_summit, summit_date, job_filter, institution_filter) ==
    LET cutoff_date == summit_date - days_before_summit
        job_filtered_df == ApplyJobFilter(UpToCutoff(df.rows, cutoff_date), df.columns, job_filter)
        inst_filtered_df == ApplyInstitutionFilter(job_filtered_df, df.columns, institution_filter)
        filtered_df == SeparateCopy(job_filtered_df, inst_filtered_df)
        raises ==
            \/ /\ institution_filter \in {"Higher Education", "K-12"}
               /\ "Job Classification" \in df.columns
               /\ StrRaises(df, "job", filtered_df, FALSE)
            \/ "Title" \in df.columns /\ StrRaises(df, "title", filtered_df, TRUE)
            \/ "Company Name" \in df.columns /\ StrRaises(df, "company", inst_filtered_df, TRUE)
            \/ "Job Classification" \in df.columns /\ StrRaises(df, "job", filtered_df, TRUE)
        num_attendees ==
            IF "Email Address" \in df.columns
            THEN Len(Keep(filtered_df, [i \in 1..Len(filtered_df) |-> filtered_df[i].email # NaN], 1))
            ELSE Len(Keep(filtered_df, [i \in 1..Len(filtered_df) |-> filtered_df[i].date # <<>>], 1))
        senior_mask ==
            [i \in 1..Len(filtered_df) |-> ContainsAny(FillNa(filtered_df[i].title), SeniorKeywordSet)]
        senior_df ==
            IF "Title" \in df.columns THEN Keep(filtered_df, senior_mask, 1) ELSE <<>>
        num_senior_leaders == Len(senior_df)
        num_women_leaders ==
            IF "My Gender is:" \in df.columns /\ Len(senior_df) > 0
            THEN Len(Keep(senior_df,
                          [i \in 1..Len(senior_df) |-> Lower(FillNa(senior_df[i].gender1)) \in WOMEN_VALUES], 1))
            ELSE IF "Gender" \in df.columns /\ Len(senior_df) > 0
            THEN Len(Keep(senior_df,
                          [i \in 1..Len(senior_df) |-> Lower(FillNa(senior_df[i].gender2)) \in WOMEN_VALUES], 1))
            ELSE 0
        unique_institutions == UniqueNotNa(Column(inst_filtered_df, "company"))
        has_company == "Company Name" \in df.columns
        num_institutions == IF has_company THEN Cardinality(unique_institutions) ELSE 0
        num_community_colleges ==
            IF has_company
            THEN Cardinality({ inst \in unique_institutions : is_community_college(inst) })
            ELSE 0
        college_rows ==
            Keep(inst_filtered_df,
                 [i \in 1..Len(inst_filtered_df) |->
                     ContainsAny(FillNa(inst_filtered_df[i].company), {COLLEGE})], 1)
        num_colleges ==
            IF has_company THEN Cardinality(UniqueNotNa(Column(college_rows, "company"))) ELSE 0
        all_codes == UniqueNotNa(Column(inst_filtered_df, "state"))
        num_us_states ==
            IF "Primary State/Prov. Code" \in df.columns
            THEN Cardinality({ code \in all_codes : Upper(code) \in us_state_codes })
            ELSE 0
        num_startups ==
            IF "Job Classification" \in df.columns
            THEN Len(Keep(filtered_df,
                          [i \in 1..Len(filtered_df) |->
                              ContainsAny(FillNa(filtered_df[i].job), STARTUP_PATTERNS)], 1))
            ELSE 0
    IN  IF raises THEN Raised
        ELSE [ Attendees |-> num_attendees,
               SeniorLeaders |-> num_senior_leaders,
               WomenLeaders |-> num_women_leaders,
               Institutions |-> num_institutions,
               CommunityColleges |-> num_community_colleges,
               AllColleges |-> num_colleges,
               USStates |-> num_us_states,
               Startups |-> num_startups ]

-----------------------------------------------------------------------------
(* create_daily_registration_chart: the two traces of the figure.          *)

\* the number of rows whose days_before_summit is k
CountWithKey(days, k) == Cardinality({ i \in 1..Len(days) : days[i] = k })

\* lines 500-501: the keys in descending order
RECURSIVE SortDescending(_)
SortDescending(keys) ==
    IF keys = {} THEN <<>>
    ELSE LET top == CHOOSE k \in keys : \A j \in keys : j <= k
         IN  <<top>> \o SortDescending(keys \ {top})

\* lines 503-504: Series.cumsum()
RECURSIVE CumSum(_, _)
CumSum(counts, i) ==
    IF i = 0 THEN 0 ELSE CumSum(counts, i - 1) + counts[i]

\* a plausible slip: the rows dated on the cutoff day itself are dropped from
\* the trace
DailyCumulativeNoDayZero(df, days_before_summit, summit_date, job_filter) ==
    LET cutoff_date == summit_date - days_before_summit
        df_filtered == ApplyJobFilter(UpToCutoff(df.rows, cutoff_date), df.columns, job_filter)
        days == [i \in 1..Len(df_filtered) |-> summit_date - df_filtered[i].date[1]]
        keys == SortDescending({ days[i] : i \in 1..Len(days) } \ {days_before_summit})
        counts == [i \in 1..Len(keys) |-> CountWithKey(days, keys[i])]
    IN  [i \in 1..Len(keys) |->
            [days_before_summit |-> keys[i], count |-> counts[i], cumulative |-> CumSum(counts, i)]]

\* lines 476-504 for one of the two dataframes: the rows of daily1 (daily2),
\* in the order they are plotted
DailyCumulative(df, days_before_summit, summit_date, job_filter) ==
    LET cutoff_date == summit_date - days_before_summit
        df_filtered == ApplyJobFilter(UpToCutoff(df.rows, cutoff_date), df.columns, job_filter)
        days == [i \in 1..Len(df_filtered) |-> summit_date - df_filtered[i].date[1]]
        keys == SortDescending({ days[i] : i \in 1..Len(days) })
        counts == [i \in 1..Len(keys) |-> CountWithKey(days, keys[i])]
    IN  [i \in 1..Len(keys) |->
            [days_before_summit |-> keys[i], count |-> counts[i], cumulative |-> CumSum(counts, i)]]

-----------------------------------------------------------------------------
(* The session state and the saved blob: save_data_to_database and         *)
(* load_data_from_database.                                                *)
(*                                                                         *)
(* A session field that may be None is <<>> for None and <<v>> for v; a    *)
(* dataframe is NoDf for None, a column name NoCol.                        *)

\* lines 29-44
NewSession ==
    [df1 |-> NoDf, df2 |-> NoDf, year1 |-> <<>>, year2 |-> <<>>,
     summit_date1 |-> <<>>, summit_date2 |-> <<>>,
     date_column1 |-> NoCol, date_column2 |-> NoCol]

\* a field of the blob that is null
NoJson == [null |-> TRUE]

\* DataFrame.to_json(date_format='iso') for one cell: a Timestamp becomes its
\* ISO text, NaT becomes null, text stays text
CellToJson(cell) ==
    IF "y" \in DOMAIN cell
    THEN IF cell = NaT THEN NullCell
         ELSE [shape |-> "stamp", a |-> cell.y, b |-> cell.m, c |-> cell.d]
    ELSE cell

\* DataFrame.to_json(date_format='iso'): column by column, row by row
ToJson(df) == [col \in DOMAIN df |-> [i \in 1..Len(df[col]) |-> CellToJson(df[col][i])]]

\* pd.read_json converts the columns whose name, lowercased, is date or
\* datetime or modified, starts with timestamp, or ends with _at or _time; of
\* the names a file of the model has, these
DateLikeNames == { "Date", "Timestamp" }

\* pd.read_json for one column
ColumnFromJson(col, cells) ==
    IF col \in DateLikeNames /\ ~Raises(ToDatetimeMixed(cells))
    THEN ToDatetimeMixed(cells)
    ELSE cells

\* pd.read_json(data['df1'])
ReadJson(json) == [col \in DOMAIN json |-> ColumnFromJson(col, json[col])]

\* date.isoformat()
IsoFormat(date) == [shape |-> "dash", a |-> date.y, b |-> date.m, c |-> date.d]

\* pd.to_datetime(text).date()
DateFromIso(text) == ParseCellMixed(text)

\* lines 211-220
BlobOf(s) ==
    [df1 |-> IF s.df1 # NoDf THEN ToJson(s.df1) ELSE NoJson,
     df2 |-> IF s.df2 # NoDf THEN ToJson(s.df2) ELSE NoJson,
     year1 |-> s.year1,
     year2 |-> s.year2,
     summit_date1 |-> IF s.summit_date1 # <<>> THEN <<IsoFormat(s.summit_date1[1])>> ELSE <<>>,
     summit_date2 |-> IF s.summit_date2 # <<>> THEN <<IsoFormat(s.summit_date2[1])>> ELSE <<>>,
     date_column1 |-> s.date_column1,
     date_column2 |-> s.date_column2]

DATA_KEY == "event_comparison_data"

\* the rows of event_data whose data_key is the app's key, by place
Matching(rows) == { i \in 1..Len(rows) : rows[i].data_key = DATA_KEY }

\* lines 232-234: update(...).eq('data_key', ...): every matching row gets the
\* new value (saved_from records the session state the value was built from)
UpdateRows(rows, data, built_from) ==
    [i \in 1..Len(rows) |->
        IF rows[i].data_key = DATA_KEY
        THEN [rows[i] EXCEPT !.data_value = data, !.saved_from = built_from]
        ELSE rows[i]]

\* the statements of load_data_from_database that change the session, in
\* order; "end" is the return
LoadSteps == <<"df1", "df2", "years", "summit_date1", "summit_date2", "date_columns", "end">>

StepNumber(step) == CHOOSE i \in 1..Len(LoadSteps) : LoadSteps[i] = step

\* the calls that can raise: the two pd.read_json and the two pd.to_datetime
\* run only for a field of the blob that is not null
CanRaiseAt(data, step) ==
    \/ step = "df1" /\ data.df1 # NoJson
    \/ step = "df2" /\ data.df2 # NoJson
    \/ step = "summit_date1" /\ data.summit_date1 # <<>>
    \/ step = "summit_date2" /\ data.summit_date2 # <<>>

\* lines 268-285: the session after the statements before `stop` have run
Restore(s, data, stop) ==
    LET done(step) == StepNumber(step) < StepNumber(stop)
    IN  [df1 |-> IF done("df1") /\ data.df1 # NoJson THEN ReadJson(data.df1) ELSE s.df1,
         df2 |-> IF done("df2") /\ data.df2 # NoJson THEN ReadJson(data.df2) ELSE s.df2,
         year1 |-> IF done("years") THEN data.year1 ELSE s.year1,
         year2 |-> IF done("years") THEN data.year2 ELSE s.year2,
         summit_date1 |-> IF done("summit_date1") /\ data.summit_date1 # <<>>
                          THEN <<DateFromIso(data.summit_date1[1])>> ELSE s.summit_date1,
         summit_date2 |-> IF done("summit_date2") /\ data.summit_date2 # <<>>
                          THEN <<DateFromIso(data.summit_date2[1])>> ELSE s.summit_date2,
         date_column1 |-> IF done("date_columns") THEN data.date_column1 ELSE s.date_column1,
         date_column2 |-> IF done("date_columns") THEN data.date_column2 ELSE s.date_column2]

-----------------------------------------------------------------------------
(* The values the variables of a part hold while another part is checked.   *)

NotCalled == [called |-> FALSE, df |-> NoDf, col |-> NoCol]

NoFrame == [columns |-> {}, rows |-> <<>>]

NotShown ==
    [shown |-> FALSE, runs |-> 0, source1 |-> NoFrame, source2 |-> NoFrame,
     days_before |-> 0, job_filter |-> NaN, institution_filter |-> "None",
     kpis1 |-> <<>>, kpis2 |-> <<>>, daily1 |-> <<>>, daily2 |-> <<>>]

IdleKpi ==
    /\ kdf1 = NoFrame
    /\ kdf2 = NoFrame
    /\ shown = NotShown

IdleCC ==
    /\ name = <<>>
    /\ verdict = "none"

IdleDates ==
    /\ rawdf = NoDf
    /\ parsed = NotCalled

Users == { "u1", "u2" }

NoSave == [pc |-> "idle", data |-> NoJson, built_from |-> NoJson]

NoStep == [op |-> "none", ok |-> TRUE, before |-> NoJson, data |-> NoJson]

\* a browser session just opened, an empty table
FreshSessions ==
    /\ session = [u \in Users |-> NewSession]
    /\ file2 = [u \in Users |-> NoDf]
    /\ event_data = <<>>
    /\ saving = [u \in Users |-> NoSave]
    /\ written = NoJson
    /\ last = [u \in Users |-> NoStep]

IdleSession == FreshSessions

-----------------------------------------------------------------------------
(* Specification SpecCC: is_community_college applied to a name.           *)

MaxNameLen == 4

NameAlphabet == {"C", "c", "A", " "}

RECURSIVE TextsUpTo(_, _)
TextsUpTo(alphabet, n) ==
    IF n = 0 THEN { <<>> }
    ELSE LET shorter == TextsUpTo(alphabet, n - 1)
         IN  shorter \cup { Append(t, c) : t \in shorter, c \in alphabet }

SampleNames ==
    { <<"A","B","C">>,
      <<"P","a","r","k","l","a","n","d"," ","C","C">>,
      <<"A","c","m","e"," ","C","C">>,
      <<"A","c","c","e","n","t","u","r","e">>,
      <<"P","a","r","k","l","a","n","d"," ","C","C",","," ","I","L">>,
      <<"M","i","a","m","i"," ","D","a","d","e"," ","C","o","l","l","e","g","e">>,
      <<" "," ","M","I","A","M","I"," ","D","A","D","E"," ","C","O","L","L","E","G","E"," "," ">>,
      <<"A","c","c","r","a"," ","T","e","c","h"," ","C","o","l","l","e","g","e">>,
      <<"S","t","a","t","e"," ","U","n","i","v","e","r","s","i","t","y">> }

Names == SampleNames \cup TextsUpTo(NameAlphabet, MaxNameLen)

InitCC ==
    /\ name \in Names
    /\ verdict = "none"
    /\ IdleDates
    /\ IdleKpi
    /\ IdleSession

Classify ==
    /\ verdict = "none"
    /\ verdict' = IF is_community_college(name) THEN "yes" ELSE "no"
    /\ UNCHANGED name

NextCC == Classify /\ UNCHANGED <<dateVars, kpiVars, sessVars>>

SpecCC == InitCC /\ [][NextCC]_vars

-----------------------------------------------------------------------------
(* Specification SpecDates: parse_dates applied to a dataframe.            *)

MaxCells == 2

\* the texts a date cell is drawn from: 2024-03-04, 03/04/2024, 13/04/2024,
\* 04/13/2024, 03/04/24, 2024-03-04T00:00:00.000, text that is no date, empty
RawCells ==
    { [shape |-> "dash",  a |-> 2024, b |-> 3,  c |-> 4],
      [shape |-> "slash", a |-> 3,    b |-> 4,  c |-> 2024],
      [shape |-> "slash", a |-> 13,   b |-> 4,  c |-> 2024],
      [shape |-> "slash", a |-> 4,    b |-> 13, c |-> 2024],
      [shape |-> "slash", a |-> 3,    b |-> 4,  c |-> 24],
      [shape |-> "stamp", a |-> 2024, b |-> 3,  c |-> 4],
      JunkCell,
      NullCell }

RECURSIVE ColumnsUpTo(_, _)
ColumnsUpTo(cells, n) ==
    IF n = 0 THEN { <<>> }
    ELSE LET shorter == ColumnsUpTo(cells, n - 1)
         IN  shorter \cup { Append(col, c) : col \in shorter, c \in cells }

CandidateSet == { possible_date_columns[i] : i \in 1..Len(possible_date_columns) }

\* the place of a candidate name in possible_date_columns
Priority(col) == CHOOSE i \in 1..Len(possible_date_columns) : possible_date_columns[i] = col

\* a file with the columns cols, each candidate column holding one ISO date
\* whose day is the column's place in the list, so that the parsed dataframe
\* shows which column was parsed
FileWithColumns(cols) ==
    [col \in cols \cup {"Email Address"} |->
        IF col \in CandidateSet
        THEN << [shape |-> "dash", a |-> 2024, b |-> 1, c |-> Priority(col)] >>
        ELSE << JunkCell >>]

\* a file with one date column holding the cells given
FileWithDates(cells) ==
    [col \in {"Registration Date", "Email Address"} |->
        IF col = "Registration Date" THEN cells
        ELSE [i \in 1..Len(cells) |-> JunkCell]]

InitDates ==
    /\ \/ \E cols \in SUBSET CandidateSet : rawdf = FileWithColumns(cols)
       \/ \E cells \in ColumnsUpTo(RawCells, MaxCells) : rawdf = FileWithDates(cells)
    /\ parsed = NotCalled
    /\ IdleCC
    /\ IdleKpi
    /\ IdleSession

\* df, date_col = parse_dates(df)
ParseDates ==
    /\ ~parsed.called
    /\ parsed' = [called |-> TRUE, df |-> parse_dates(rawdf).df, col |-> parse_dates(rawdf).col]
    /\ UNCHANGED rawdf

NextDates == ParseDates /\ UNCHANGED <<ccVars, kpiVars, sessVars>>

SpecDates == InitDates /\ [][NextDates]_vars

-----------------------------------------------------------------------------
(* Specification SpecKpi: the analysis section on two parsed dataframes.   *)

MaxRows == 2
MaxDays == 2

OptionalColumns ==
    { "Email Address", "Title", "My Gender is:", "Gender", "Company Name",
      "Primary State/Prov. Code", "Job Classification" }

\* the days registrations are dated on, and the two summit days
RowDays == { <<>>, <<3>>, <<4>> }
SummitDays == <<5, 4>>

\* what a row holds besides its date
Profiles ==
    { [email |-> <<"a","@","x">>, title |-> <<"V","P"," ","o","f"," ","S","a","l","e","s">>, gender1 |-> <<"F","e","m","a","l","e">>, gender2 |-> NaN,
       company |-> <<"A","c","m","e"," ","C","C">>, state |-> <<"C","A">>, job |-> <<"H","E">>],
      [email |-> NaN, title |-> <<"T","e","a","c","h","e","r">>, gender1 |-> NaN, gender2 |-> <<"F">>,
       company |-> <<"M","i","a","m","i"," ","D","a","d","e"," ","C","o","l","l","e","g","e">>, state |-> <<"c","a">>, job |-> <<"K","-","1","2">>],
      [email |-> <<"b","@","x">>, title |-> <<"D","e","a","n">>, gender1 |-> <<"m","a","l","e">>, gender2 |-> <<"w","o","m","a","n">>,
       company |-> <<"A","c","c","e","n","t","u","r","e">>, state |-> <<"O","N">>, job |-> <<"C","o","r","p","o","r","a","t","e"," ","E","n","t","e","r","p","r","i","s","e">>],
      [email |-> <<"c","@","x">>, title |-> NaN, gender1 |-> NaN, gender2 |-> NaN,
       company |-> NaN, state |-> NaN, job |-> NaN] }

RowOf(day, profile) ==
    [date |-> day, email |-> profile.email, title |-> profile.title,
     gender1 |-> profile.gender1, gender2 |-> profile.gender2,
     company |-> profile.company, state |-> profile.state, job |-> profile.job]

Rows == { RowOf(day, profile) : day \in RowDays, profile \in Profiles }

RECURSIVE RowsUpTo(_, _)
RowsUpTo(rows, n) ==
    IF n = 0 THEN { <<>> }
    ELSE LET shorter == RowsUpTo(rows, n - 1)
         IN  shorter \cup { Append(s, r) : s \in shorter, r \in rows }

\* the file's field of a column
FieldOf(column) ==
    CASE column = "Email Address" -> "email"
      [] column = "Title" -> "title"
      [] column = "My Gender is:" -> "gender1"
      [] column = "Gender" -> "gender2"
      [] column = "Company Name" -> "company"
      [] column = "Primary State/Prov. Code" -> "state"
      [] column = "Job Classification" -> "job"

\* the dataframe with the rows given and only the optional columns given
Frame(rows, columns) ==
    [columns |-> columns \cup {"Date"},
     rows |-> [i \in 1..Len(rows) |->
                 [f \in DOMAIN rows[i] |->
                     IF f = "date" \/ \E c \in columns : FieldOf(c) = f
                     THEN rows[i][f] ELSE NaN]]]

\* the second year's dataframes
SecondFrames ==
    { Frame(<<>>, OptionalColumns),
      Frame(<< RowOf(<<3>>, CHOOSE q \in Profiles : q.job = <<"K","-","1","2">>),
               RowOf(<<3>>, CHOOSE q \in Profiles : q.job = <<"H","E">>),
               RowOf(<<2>>, CHOOSE q \in Profiles : q.job = <<"H","E">>) >>, OptionalColumns) }

\* job_filter as passed by the analysis section: None (NaN here) for "All"
JobFilters == { NaN, <<"H","E">>, <<"K","-","1","2">> }

InstitutionFilters == { "None", "Higher Education", "K-12" }

InitKpi ==
    /\ \/ \E rows \in RowsUpTo(Rows, MaxRows) : kdf1 = Frame(rows, OptionalColumns)
       \/ \E columns \in SUBSET OptionalColumns :
             kdf1 = Frame(<< RowOf(<<3>>, CHOOSE q \in Profiles : q.job = <<"H","E">>),
                             RowOf(<<4>>, CHOOSE q \in Profiles : q.job = <<"K","-","1","2">>) >>, columns)
    /\ kdf2 \in SecondFrames
    /\ shown = NotShown
    /\ IdleCC
    /\ IdleDates
    /\ IdleSession

\* a plausible slip: the column days_before_summit is added to the dataframe
\* passed in
FilteredIsTheSource == TRUE

\* lines 481-482: df1_filtered and df2_filtered are copies of a selection of
\* rows, never the dataframe passed in
FilteredSharesSource == FALSE

\* the calls of the run all returned, so the run reached line 799
ChartDrawn(results) == results.kpis1 # Raised /\ results.kpis2 # Raised

\* lines 492-493: the dataframe passed to create_daily_registration_chart
\* after the column days_before_summit was added to the filtered dataframe
SourceAfterChart(df, results) ==
    IF FilteredSharesSource /\ ChartDrawn(results)
    THEN [df EXCEPT !.columns = @ \cup {"days_before_summit"}] ELSE df

\* lines 734-744 and 787-798: the two calls of calculate_kpis and the call of
\* create_daily_registration_chart; an exception in a call ends the run there
AnalysisResults(df1, df2, days_before, job_filter, institution_filter) ==
    LET kpis1 == calculate_kpis(df1, days_before, SummitDays[1], job_filter, institution_filter)
        kpis2 == calculate_kpis(df2, days_before, SummitDays[2], job_filter, institution_filter)
    IN  [kpis1 |-> kpis1,
         kpis2 |-> IF kpis1 = Raised THEN NotReached ELSE kpis2,
         daily1 |-> IF kpis1 = Raised \/ kpis2 = Raised THEN NotReached
                    ELSE DailyCumulative(df1, days_before, SummitDays[1], job_filter),
         daily2 |-> IF kpis1 = Raised \/ kpis2 = Raised THEN NotReached
                    ELSE DailyCumulative(df2, days_before, SummitDays[2], job_filter)]

\* the number of runs of the analysis section that are followed
MaxRuns == 2

\* lines 697-731: the script runs again after an interaction, and one
\* interaction changes at most one of the slider and the two select boxes
OneInteraction(days_before, job_filter, institution_filter) ==
    shown.shown =>
        (IF days_before = shown.days_before THEN 0 ELSE 1)
        + (IF job_filter = shown.job_filter THEN 0 ELSE 1)
        + (IF institution_filter = shown.institution_filter THEN 0 ELSE 1) <= 1

\* lines 685-800: a run of the analysis section, for one choice of the slider
\* and the two select boxes
Analysis ==
    /\ shown.runs < MaxRuns
    /\ \E days_before \in 1..MaxDays, job_filter \in JobFilters, institution_filter \in InstitutionFilters :
          /\ OneInteraction(days_before, job_filter, institution_filter)
          /\ shown' = [shown |-> TRUE, runs |-> shown.runs + 1,
                       source1 |-> IF shown.shown THEN shown.source1 ELSE kdf1,
                       source2 |-> IF shown.shown THEN shown.source2 ELSE kdf2,
                       days_before |-> days_before,
                       job_filter |-> job_filter, institution_filter |-> institution_filter]
                      @@ AnalysisResults(kdf1, kdf2, days_before, job_filter, institution_filter)
          /\ kdf1' = SourceAfterChart(kdf1, AnalysisResults(kdf1, kdf2, days_before, job_filter, institution_filter))
          /\ kdf2' = SourceAfterChart(kdf2, AnalysisResults(kdf1, kdf2, days_before, job_filter, institution_filter))

NextKpi == Analysis /\ UNCHANGED <<ccVars, dateVars, sessVars>>

SpecKpi == InitKpi /\ [][NextKpi]_vars

-----------------------------------------------------------------------------
(* The steps of a session.                                                 *)
(*                                                                         *)
(* Streamlit runs the script from the top for every interaction and stops  *)
(* a run where it stands when the next interaction arrives, so the         *)
(* sections of the script are separate steps: the sidebar (force reload,   *)
(* load, save), the two upload sections, the label widgets.                *)
(* save_data_to_database makes two requests, update and insert, and the    *)
(* requests of another session can arrive between them.                    *)

\* a CSV file with one date column and an e-mail column
DatedFile(date_column, cells) ==
    [col \in {date_column, "Email Address"} |->
        IF col = date_column THEN cells
        ELSE [i \in 1..Len(cells) |-> JunkCell]]

\* the files a user picks for the first uploader: two rows under "Date", one
\* row under "Date", and a file without a date column
Files1 ==
    { DatedFile("Date", << [shape |-> "dash", a |-> 2024, b |-> 3, c |-> 4],
                           [shape |-> "dash", a |-> 2024, b |-> 3, c |-> 5] >>),
      DatedFile("Date", << [shape |-> "dash", a |-> 2024, b |-> 3, c |-> 6] >>),
      [col \in {"Email Address"} |-> << JunkCell >>] }

\* the files a user picks for the second uploader: one row under
\* "Registration Date", and a file one of whose dates is no date
Files2 ==
    { DatedFile("Registration Date", << [shape |-> "slash", a |-> 3, b |-> 4, c |-> 2025] >>),
      DatedFile("Registration Date", << [shape |-> "slash", a |-> 3, b |-> 4, c |-> 2025], JunkCell >>) }

\* what the year and the date widgets are set to: the defaults of lines
\* 647-651 and 675-679, and the same a year earlier
LabelChoices ==
    { [year1 |-> 2024, date1 |-> [y |-> 2024, m |-> 4, d |-> 14],
       year2 |-> 2025, date2 |-> [y |-> 2025, m |-> 4, d |-> 6]],
      [year1 |-> 2023, date1 |-> [y |-> 2023, m |-> 4, d |-> 14],
       year2 |-> 2024, date2 |-> [y |-> 2024, m |-> 4, d |-> 6]] }

\* lines 634-639
AfterUpload1(s, file) ==
    LET result == parse_dates(file)
    IN  IF result.df # NoDf
        THEN [s EXCEPT !.df1 = result.df, !.date_column1 = result.col]
        ELSE s

\* lines 661-667, and 557-562
AfterUpload2(s, file) ==
    LET result == parse_dates(file)
    IN  IF result.df # NoDf
        THEN [s EXCEPT !.df2 = result.df, !.date_column2 = result.col]
        ELSE s

\* lines 643-653 and 671-681
AfterLabels(s, choice) ==
    [s EXCEPT !.year1 = IF s.df1 # NoDf THEN <<choice.year1>> ELSE @,
              !.summit_date1 = IF s.df1 # NoDf THEN <<choice.date1>> ELSE @,
              !.year2 = IF s.df2 # NoDf THEN <<choice.year2>> ELSE @,
              !.summit_date2 = IF s.df2 # NoDf THEN <<choice.date2>> ELSE @]

\* what a step leaves in `last`: the session before the step is kept for a
\* step that failed, the file for an upload
Step(op, ok, before, data) ==
    [op |-> op, ok |-> ok, before |-> IF ok THEN NoJson ELSE before, data |-> data]

\* no call of save_data_to_database of the user is between its two requests
Idle(u) == saving[u].pc = "idle"

\* lines 29-44: the page is opened anew, which starts a new session
NewBrowserSession(u) ==
    /\ Idle(u)
    /\ session[u] # NewSession
    /\ session' = [session EXCEPT ![u] = NewSession]
    /\ file2' = [file2 EXCEPT ![u] = NoDf]
    /\ last' = [last EXCEPT ![u] = NoStep]
    /\ UNCHANGED <<event_data, saving, written>>

\* lines 631-639: a file is uploaded to the first uploader
Upload1(u) ==
    /\ Idle(u)
    /\ session[u].df1 = NoDf
    /\ \E file \in Files1 :
          /\ session' = [session EXCEPT ![u] = AfterUpload1(@, file)]
          /\ last' = [last EXCEPT ![u] = Step("upload1", parse_dates(file).df # NoDf, session[u], file)]
    /\ UNCHANGED <<file2, event_data, saving, written>>

\* lines 658-667: a file is uploaded to the second uploader
Upload2(u) ==
    /\ Idle(u)
    /\ session[u].df2 = NoDf
    /\ \E file \in Files2 :
          /\ session' = [session EXCEPT ![u] = AfterUpload2(@, file)]
          /\ file2' = [file2 EXCEPT ![u] = file]
          /\ last' = [last EXCEPT ![u] = Step("upload2", parse_dates(file).df # NoDf, session[u], file)]
    /\ UNCHANGED <<event_data, saving, written>>

\* lines 552-564: the Force Reload button, with a file in the second uploader
ForceReload(u) ==
    /\ Idle(u)
    /\ file2[u] # NoDf
    /\ session' = [session EXCEPT ![u] = AfterUpload2(@, file2[u])]
    /\ last' = [last EXCEPT ![u] =
                   Step("force_reload", parse_dates(file2[u]).df # NoDf, session[u], file2[u])]
    /\ UNCHANGED <<file2, event_data, saving, written>>

\* lines 643-653 and 671-681: the year and the date of the datasets present
Labels(u) ==
    /\ Idle(u)
    /\ session[u].df1 # NoDf \/ session[u].df2 # NoDf
    /\ \E choice \in LabelChoices :
          session' = [session EXCEPT ![u] = AfterLabels(@, choice)]
    /\ last' = [last EXCEPT ![u] = Step("labels", TRUE, session[u], NoJson)]
    /\ UNCHANGED <<file2, event_data, saving, written>>

\* lines 575-577 and 200-236: the Save button; the blob is built and the
\* update request made; the call returns if a row was updated
SaveUpdate(u) ==
    /\ Idle(u)
    /\ session[u].df1 # NoDf
    /\ session[u].df2 # NoDf
    /\ LET data == BlobOf(session[u])
       IN  /\ event_data' = UpdateRows(event_data, data, session[u])
           /\ written' = IF Matching(event_data) # {} THEN data ELSE written
           /\ IF Matching(event_data) # {}
              THEN /\ saving' = [saving EXCEPT ![u] = NoSave]
                   /\ last' = [last EXCEPT ![u] = Step("save", TRUE, session[u], NoJson)]
              ELSE /\ saving' = [saving EXCEPT ![u] = [pc |-> "insert", data |-> data,
                                                      built_from |-> session[u]]]
                   /\ last' = [last EXCEPT ![u] = Step("saving", TRUE, session[u], NoJson)]
    /\ UNCHANGED <<session, file2>>

\* lines 237-243: no row was updated, so the blob is inserted
SaveInsert(u) ==
    /\ saving[u].pc = "insert"
    /\ event_data' = Append(event_data, [data_key |-> DATA_KEY, data_value |-> saving[u].data,
                                         saved_from |-> saving[u].built_from])
    /\ written' = saving[u].data
    /\ saving' = [saving EXCEPT ![u] = NoSave]
    /\ last' = [last EXCEPT ![u] = Step("save", TRUE, session[u], NoJson)]
    /\ UNCHANGED <<session, file2>>

\* lines 250-253: a request of the call raises (the network, the service)
SaveRaises(u) ==
    /\ \/ Idle(u) /\ session[u].df1 # NoDf /\ session[u].df2 # NoDf
       \/ saving[u].pc = "insert"
    /\ saving' = [saving EXCEPT ![u] = NoSave]
    /\ last' = [last EXCEPT ![u] = Step("save", FALSE, session[u], NoJson)]
    /\ UNCHANGED <<session, file2, event_data, written>>

\* lines 570-572 and 255-263, 293-295: the Load button, when the select
\* raises: the request fails, or single() finds no row or several
LoadNothing(u) ==
    /\ Idle(u)
    /\ last' = [last EXCEPT ![u] = Step("load", FALSE, session[u], NoJson)]
    /\ UNCHANGED <<session, file2, event_data, saving, written>>

\* lines 570-572 and 255-295: the Load button, when single() returns the one
\* row: the fields are restored in order, up to the call that raises, if one
\* does
Load(u) ==
    /\ Idle(u)
    /\ Cardinality(Matching(event_data)) = 1
    /\ LET data == event_data[CHOOSE i \in Matching(event_data) : TRUE].data_value
       IN  \E stop \in { LoadSteps[i] : i \in 1..Len(LoadSteps) } :
             /\ stop = "end" \/ CanRaiseAt(data, stop)
             /\ session' = [session EXCEPT ![u] = Restore(@, data, stop)]
             /\ last' = [last EXCEPT ![u] = Step("load", stop = "end", session[u], NoJson)]
    /\ UNCHANGED <<file2, event_data, saving, written>>

-----------------------------------------------------------------------------
(* Specification Spec: one browser session after another, and the table.   *)

Init ==
    /\ FreshSessions
    /\ IdleCC
    /\ IdleDates
    /\ IdleKpi

Next ==
    /\ \E u \in {"u1"} :
          \/ NewBrowserSession(u)
          \/ Upload1(u)
          \/ Upload2(u)
          \/ ForceReload(u)
          \/ Labels(u)
          \/ SaveUpdate(u)
          \/ SaveInsert(u)
          \/ SaveRaises(u)
          \/ LoadNothing(u)
          \/ Load(u)
    /\ UNCHANGED <<ccVars, dateVars, kpiVars>>

Spec == Init /\ [][Next]_vars

-----------------------------------------------------------------------------
(* Specification SpecShared: two sessions at once, each with its two files *)
(* uploaded and labelled, saving to and loading from the one table.        *)

\* the session after both uploads and the label widgets
Prepared(first, second, choice) ==
    AfterLabels(AfterUpload2(AfterUpload1(NewSession, first), second), choice)

PreparedSessions ==
    { s \in { Prepared(f1, f2, choice) : f1 \in Files1, f2 \in Files2, choice \in LabelChoices } :
        s.df1 # NoDf /\ s.df2 # NoDf }

InitShared ==
    /\ session \in [Users -> PreparedSessions]
    /\ file2 = [u \in Users |-> NoDf]
    /\ event_data = <<>>
    /\ saving = [u \in Users |-> NoSave]
    /\ written = NoJson
    /\ last = [u \in Users |-> NoStep]
    /\ IdleCC
    /\ IdleDates
    /\ IdleKpi

NextShared ==
    /\ \E u \in Users :
          \/ SaveUpdate(u)
          \/ SaveInsert(u)
          \/ SaveRaises(u)
          \/ LoadNothing(u)
          \/ Load(u)
    /\ UNCHANGED <<ccVars, dateVars, kpiVars>>

SpecShared == InitShared /\ [][NextShared]_vars


-----------------------------------------------------------------------------
(* Claims about is_community_college (checked under SpecCC).               *)

\* the name as the classifier compares it
Normalized(n) == Strip(Upper(n))

\* some whitespace-separated token of s is exactly "CC"
HasStandaloneCC(s) ==
    \E i \in 1..(Len(s) - 1) :
        /\ s[i] = "C" /\ s[i + 1] = "C"
        /\ (i = 1 \/ IsSpace(s[i - 1]))
        /\ (i + 1 = Len(s) \/ IsSpace(s[i + 2]))

\* s contains one of the patterns other than "CC"
MatchesOtherPattern(s) ==
    \E i \in 1..Len(CC_PATTERNS) :
        /\ Upper(CC_PATTERNS[i]) # CC
        /\ Contains(s, Upper(CC_PATTERNS[i]))

\* C10: the generic "CC" pattern matches only a standalone token "CC" or a name
\* that ends with "CC": a name with such a CC is classified true; a name whose
\* "CC" is only embedded in a longer word and not at its end, that matches no
\* other pattern and is in no known set, is classified false; "ABC" is false
\* and "Parkland CC" is true.
C10_StandaloneOrTrailingCC ==
    verdict # "none" =>
        LET s == Normalized(name)
        IN  /\ (HasStandaloneCC(s) \/ EndsWith(s, CC)) => verdict = "yes"
            /\ ( /\ Contains(s, CC)
                 /\ ~HasStandaloneCC(s)
                 /\ ~EndsWith(s, CC)
                 /\ ~MatchesOtherPattern(s)
                 /\ s \notin KnownUpper ) => verdict = "no"
            /\ name = <<"A","B","C">> => verdict = "no"
            /\ name = <<"P","a","r","k","l","a","n","d"," ","C","C">> => verdict = "yes"

\* a name with an embedded "CC" was classified false
C10_Witness ==
    /\ verdict = "no"
    /\ Contains(Normalized(name), CC)

\* str.swapcase()
SwapCase(s) ==
    [i \in 1..Len(s) |-> IF UpperChar(s[i]) = s[i] THEN LowerChar(s[i]) ELSE UpperChar(s[i])]

\* every second letter in the other case
AlternateCase(s) ==
    [i \in 1..Len(s) |-> IF i % 2 = 0 THEN s[i]
                         ELSE IF UpperChar(s[i]) = s[i] THEN LowerChar(s[i]) ELSE UpperChar(s[i])]

\* n in other letter cases
Recased(n) == { n, Upper(n), Lower(n), SwapCase(n), AlternateCase(n) }

\* the whitespace put before or after a name
Paddings == { <<>>, <<" ">>, <<"\t">>, <<" ", " ">>, <<"\t", " ">> }

\* n with its surrounding whitespace removed, and with whitespace added
Repadded(n) ==
    { n, LStrip(n), RStrip(n), RStrip(LStrip(n)) }
        \cup { before \o RStrip(LStrip(n)) \o after : before \in Paddings, after \in Paddings }
        \cup { before \o n \o after : before \in Paddings, after \in Paddings }

\* the names that are n up to letter case and surrounding whitespace: n
\* recased and repadded, and every name of the bounded set that differs
\* from n letter by letter only in case, once both are trimmed
SameUpToCaseAndPadding(n) ==
    UNION { Repadded(r) : r \in Recased(n) }
        \cup { m \in TextsUpTo(NameAlphabet, MaxNameLen) :
                 Upper(RStrip(LStrip(m))) = Upper(RStrip(LStrip(n))) }

\* C11: is_community_college(n) is the same for n in any letter case and
\* with any surrounding whitespace added or removed.
C11_CaseAndWhitespaceInsensitive ==
    verdict # "none" =>
        \A m \in SameUpToCaseAndPadding(name) :
            is_community_college(m) = (verdict = "yes")

\* a name with trailing whitespace, or with lower-case letters, was
\* classified as a community college
C11_Witness ==
    /\ verdict = "yes"
    /\ \/ RStrip(name) # name /\ Upper(name) # Lower(name)
       \/ Upper(name) # name

-----------------------------------------------------------------------------
(* Claims about parse_dates (checked under SpecDates).                     *)

\* the format order the claim states
ClaimedFormatOrder == <<"%Y-%m-%d", "%m/%d/%Y", "%m/%d/%y", "%d/%m/%Y", "%d/%m/%y">>

\* every cell of the column parses under the format
WholeColumnParses(column, fmt) ==
    \A i \in 1..Len(column) : ParseCell(column[i], fmt) # ParseFailed

\* the ambiguous text 03/04/2024
Ambiguous == [shape |-> "slash", a |-> 3, b |-> 4, c |-> 2024]

\* the candidate columns the file has, by their place in the list
PresentCandidates == { i \in 1..Len(possible_date_columns) : possible_date_columns[i] \in DOMAIN rawdf }

FirstPresent == possible_date_columns[CHOOSE i \in PresentCandidates : \A j \in PresentCandidates : i <= j]

\* C7: the formats are tried in the order %Y-%m-%d, %m/%d/%Y, %m/%d/%y,
\* %d/%m/%Y, %d/%m/%y, one format for the whole column, and the result is the
\* parse under the first of them under which every value parses; a column
\* holding only 03/04/2024 becomes March 4, not April 3.
C7_FormatPriority ==
    (parsed.called /\ PresentCandidates # {}) =>
        LET column == rawdf[FirstPresent]
            ok == { k \in 1..Len(ClaimedFormatOrder) : WholeColumnParses(column, ClaimedFormatOrder[k]) }
            first == CHOOSE k \in ok : \A j \in ok : k <= j
        IN  /\ ok # {} =>
                /\ parsed.col = FirstPresent
                /\ parsed.df[parsed.col] =
                      [i \in 1..Len(column) |-> ParseCell(column[i], ClaimedFormatOrder[first])]
            /\ (column # <<>> /\ \A i \in 1..Len(column) : column[i] = Ambiguous) =>
                /\ parsed.col = FirstPresent
                /\ \A i \in 1..Len(column) : parsed.df[parsed.col][i] = [y |-> 2024, m |-> 3, d |-> 4]

\* a column holding only 03/04/2024 was parsed
C7_Witness ==
    /\ parsed.called
    /\ PresentCandidates # {}
    /\ rawdf[FirstPresent] = <<Ambiguous>>
    /\ parsed.df[parsed.col] = << [y |-> 2024, m |-> 3, d |-> 4] >>

\* C8: parse_dates resolves the date column to the first name of the candidate
\* list, in list order, that is a column of the dataset, and with no candidate
\* present it returns no dataset and no column name.
C8_ColumnResolution ==
    parsed.called =>
        IF PresentCandidates = {}
        THEN parsed.df = NoDf /\ parsed.col = NoCol
        ELSE \/ /\ parsed.col = FirstPresent
                /\ DOMAIN parsed.df = DOMAIN rawdf
                /\ \A c \in DOMAIN rawdf \ {FirstPresent} : parsed.df[c] = rawdf[c]
                /\ ~Raises(ToDatetimeMixed(rawdf[FirstPresent]))
             \/ /\ parsed.col = NoCol
                /\ Raises(ToDatetimeMixed(rawdf[FirstPresent]))

\* a file with several candidate columns was resolved to the earliest listed
C8_Witness ==
    /\ parsed.called
    /\ Cardinality(PresentCandidates) >= 2
    /\ parsed.col = FirstPresent
    /\ \E i \in PresentCandidates : possible_date_columns[i] = "Timestamp"

-----------------------------------------------------------------------------
(* Claims about calculate_kpis and the trend (checked under SpecKpi).      *)

\* the row is dated on or before the cutoff
\* the analysis section ran to its end: neither call of calculate_kpis raised
Displayed == shown.shown /\ shown.kpis1 # Raised /\ shown.kpis2 # Raised

InScope(row, cutoff) == row.date # <<>> /\ row.date[1] <= cutoff

\* the row passes the job classification filter
PassesJob(df, row, job_filter) ==
    \/ job_filter = NaN
    \/ "Job Classification" \notin df.columns
    \/ row.job = job_filter

\* the row passes the institution type filter
PassesInstitution(df, row, institution_filter) ==
    \/ institution_filter = "None"
    \/ "Job Classification" \notin df.columns
    \/ institution_filter = "Higher Education" /\ ContainsAny(row.job, HE_PATTERNS)
    \/ institution_filter = "K-12" /\ ContainsAny(row.job, K12_PATTERNS)

\* the four institution-derived counts of a result
InstitutionCounts(kpis) ==
    <<kpis.Institutions, kpis.CommunityColleges, kpis.AllColleges, kpis.USStates>>

\* the four counts taken over the rows numbered in `scope`
CountsOver(df, scope) ==
    LET companies == { df.rows[i].company : i \in scope } \ {NaN}
        codes == { df.rows[i].state : i \in scope } \ {NaN}
        has_company == "Company Name" \in df.columns
    IN  << IF has_company THEN Cardinality(companies) ELSE 0,
           IF has_company THEN Cardinality({ c \in companies : is_community_college(c) }) ELSE 0,
           IF has_company THEN Cardinality({ c \in companies : Contains(Lower(c), Lower(COLLEGE)) }) ELSE 0,
           IF "Primary State/Prov. Code" \in df.columns
           THEN Cardinality({ s \in codes : Upper(s) \in us_state_codes }) ELSE 0 >>

\* C1 as stated: the four institution-derived counts are those of the
\* cutoff-restricted rows narrowed only by the institution type filter, so they
\* are the same whatever job classification filter is selected.
C1_AsStated ==
    Displayed =>
        /\ InstitutionCounts(shown.kpis1) =
              CountsOver(kdf1, { i \in 1..Len(kdf1.rows) :
                  /\ InScope(kdf1.rows[i], SummitDays[1] - shown.days_before)
                  /\ PassesInstitution(kdf1, kdf1.rows[i], shown.institution_filter) })
        /\ \A job_filter \in JobFilters :
              calculate_kpis(kdf1, shown.days_before, SummitDays[1],
                             job_filter, shown.institution_filter) # Raised =>
                 InstitutionCounts(shown.kpis1) =
                    InstitutionCounts(calculate_kpis(kdf1, shown.days_before, SummitDays[1],
                                                     job_filter, shown.institution_filter))

\* C1, amended: the four institution-derived counts are taken over the
\* cutoff-restricted rows narrowed by the job classification filter and then by
\* the institution type filter; with no job classification selected they are
\* those of the rows narrowed by the institution type filter alone, and
\* selecting a job classification never raises any of them.
C1_FiltersChained ==
    Displayed =>
        LET unfiltered == calculate_kpis(kdf1, shown.days_before, SummitDays[1],
                                         NaN, shown.institution_filter)
        IN  /\ InstitutionCounts(shown.kpis1) =
                  CountsOver(kdf1, { i \in 1..Len(kdf1.rows) :
                      /\ InScope(kdf1.rows[i], SummitDays[1] - shown.days_before)
                      /\ PassesJob(kdf1, kdf1.rows[i], shown.job_filter)
                      /\ PassesInstitution(kdf1, kdf1.rows[i], shown.institution_filter) })
            /\ InstitutionCounts(shown.kpis2) =
                  CountsOver(kdf2, { i \in 1..Len(kdf2.rows) :
                      /\ InScope(kdf2.rows[i], SummitDays[2] - shown.days_before)
                      /\ PassesJob(kdf2, kdf2.rows[i], shown.job_filter)
                      /\ PassesInstitution(kdf2, kdf2.rows[i], shown.institution_filter) })
            /\ \A k \in 1..4 : InstitutionCounts(shown.kpis1)[k] <= InstitutionCounts(unfiltered)[k]

\* a job classification was selected and it lowered the Institutions count
C1_Witness ==
    /\ Displayed
    /\ shown.job_filter # NaN
    /\ shown.institution_filter = "Higher Education"
    /\ shown.kpis1.Institutions <
          calculate_kpis(kdf1, shown.days_before, SummitDays[1], NaN, shown.institution_filter).Institutions

KpiNames ==
    { "Attendees", "SeniorLeaders", "WomenLeaders", "Institutions",
      "CommunityColleges", "AllColleges", "USStates", "Startups" }

\* C2: with the dataset, the reference date and the two filters fixed, every
\* KPI at a cutoff is at most the same KPI at any later cutoff (a smaller
\* days_before_summit).
C2_MonotoneInCutoff ==
    Displayed =>
        \A later \in 1..MaxDays :
            later <= shown.days_before =>
                \A k \in KpiNames :
                    /\ shown.kpis1[k] <=
                          calculate_kpis(kdf1, later, SummitDays[1],
                                         shown.job_filter, shown.institution_filter)[k]
                    /\ shown.kpis2[k] <=
                          calculate_kpis(kdf2, later, SummitDays[2],
                                         shown.job_filter, shown.institution_filter)[k]

\* the KPIs were computed at a cutoff that leaves out a row a later cutoff counts
C2_Witness ==
    /\ Displayed
    /\ shown.days_before = MaxDays
    /\ shown.kpis1.Attendees > 0
    /\ shown.kpis1.Attendees <
          calculate_kpis(kdf1, 1, SummitDays[1], shown.job_filter, shown.institution_filter).Attendees

\* the rows of df that the institution-derived KPIs are taken over
InstitutionSubset(df, summit, days_before, job_filter, institution_filter) ==
    { i \in 1..Len(df.rows) :
        /\ InScope(df.rows[i], summit - days_before)
        /\ PassesJob(df, df.rows[i], job_filter)
        /\ PassesInstitution(df, df.rows[i], institution_filter) }

\* the distinct uppercased codes of the rows numbered in `scope` that are
\* codes of the 50 states or DC
UpperCasedStates(df, scope) ==
    { Upper(df.rows[i].state) : i \in { j \in scope : df.rows[j].state # NaN } }
        \cap us_state_codes

\* C12: the U.S. States KPI is the number of distinct uppercased codes of the
\* institution-filtered rows that are among the 50 states and DC, so two codes
\* differing only in letter case count once, and it is at most 51.
C12_DistinctUppercasedStates ==
    Displayed =>
        /\ shown.kpis1.USStates =
              IF "Primary State/Prov. Code" \in kdf1.columns
              THEN Cardinality(UpperCasedStates(kdf1,
                       InstitutionSubset(kdf1, SummitDays[1], shown.days_before,
                                         shown.job_filter, shown.institution_filter)))
              ELSE 0
        /\ shown.kpis2.USStates =
              IF "Primary State/Prov. Code" \in kdf2.columns
              THEN Cardinality(UpperCasedStates(kdf2,
                       InstitutionSubset(kdf2, SummitDays[2], shown.days_before,
                                         shown.job_filter, shown.institution_filter)))
              ELSE 0
        /\ shown.kpis1.USStates <= 51
        /\ shown.kpis2.USStates <= 51

\* the KPIs of a result that are backed by a column the dataframe lacks are 0
\* (Attendees, without an e-mail column, is the number of dated rows in scope
\* that pass the job classification filter), and so are the three counts
\* backed by a Company Name column that has no value
ZeroWhereMissing(df, kpis, summit, days_before, job_filter) ==
    /\ "Email Address" \notin df.columns =>
          kpis.Attendees = Cardinality({ i \in 1..Len(df.rows) :
                                            /\ InScope(df.rows[i], summit - days_before)
                                            /\ PassesJob(df, df.rows[i], job_filter) })
    /\ "Title" \notin df.columns => kpis.SeniorLeaders = 0 /\ kpis.WomenLeaders = 0
    /\ ("My Gender is:" \notin df.columns /\ "Gender" \notin df.columns) => kpis.WomenLeaders = 0
    /\ "Company Name" \notin df.columns =>
          kpis.Institutions = 0 /\ kpis.CommunityColleges = 0 /\ kpis.AllColleges = 0
    /\ "Primary State/Prov. Code" \notin df.columns => kpis.USStates = 0
    /\ "Job Classification" \notin df.columns => kpis.Startups = 0
    /\ (\A i \in 1..Len(df.rows) : df.rows[i].company = NaN) =>
          kpis.Institutions = 0 /\ kpis.CommunityColleges = 0 /\ kpis.AllColleges = 0

\* C13: whatever optional columns are missing or without a value, and whatever
\* the filters, calculate_kpis raises nothing and returns the eight KPIs, those
\* backed by a missing column being 0, and Institutions, Community Colleges
\* and All Colleges being 0 when the Company Name column has no value.
C13_MissingColumnsNeverRaise ==
    shown.shown =>
        /\ shown.kpis1 # Raised
        /\ shown.kpis2 # Raised
        /\ DOMAIN shown.kpis1 = KpiNames
        /\ DOMAIN shown.kpis2 = KpiNames
        /\ ZeroWhereMissing(kdf1, shown.kpis1, SummitDays[1], shown.days_before, shown.job_filter)
        /\ ZeroWhereMissing(kdf2, shown.kpis2, SummitDays[2], shown.days_before, shown.job_filter)

\* df without the rows dated after the cutoff and the rows without a date
WithoutRowsOutOfScope(df, cutoff) ==
    [df EXCEPT !.rows = Keep(df.rows, [i \in 1..Len(df.rows) |-> InScope(df.rows[i], cutoff)], 1)]

\* the rows of df dated exactly on the cutoff
RowsAtCutoff(df, cutoff) == { i \in 1..Len(df.rows) : df.rows[i].date = <<cutoff>> }

\* the scenario of the claim: no e-mail column, and the one row in scope is
\* dated exactly on the cutoff, with title "VP of Sales", gender "Female" and
\* company "Acme CC"
CutoffScenario(df, cutoff) ==
    /\ "Email Address" \notin df.columns
    /\ {"Title", "My Gender is:", "Company Name"} \subseteq df.columns
    /\ Cardinality({ i \in 1..Len(df.rows) : InScope(df.rows[i], cutoff) }) = 1
    /\ \E i \in RowsAtCutoff(df, cutoff) :
          /\ df.rows[i].title = <<"V","P"," ","o","f"," ","S","a","l","e","s">>
          /\ df.rows[i].gender1 = <<"F","e","m","a","l","e">>
          /\ df.rows[i].company = <<"A","c","m","e"," ","C","C">>

\* C14 for one dataframe and its result
CutoffInclusive(df, kpis, summit, days_before, job_filter, institution_filter) ==
    LET cutoff == summit - days_before
        in_scope == WithoutRowsOutOfScope(df, cutoff)
    IN  /\ kpis.Attendees =
              Cardinality({ i \in 1..Len(df.rows) :
                  /\ df.rows[i].date # <<>>
                  /\ df.rows[i].date[1] <= cutoff
                  /\ PassesJob(df, df.rows[i], job_filter)
                  /\ "Email Address" \in df.columns => df.rows[i].email # NaN })
        /\ calculate_kpis(in_scope, days_before, summit, job_filter, institution_filter) # Raised =>
              kpis = calculate_kpis(in_scope, days_before, summit, job_filter, institution_filter)
        /\ (CutoffScenario(df, cutoff) /\ job_filter = NaN /\ institution_filter = "None") =>
              /\ kpis.Attendees = 1
              /\ kpis.SeniorLeaders = 1
              /\ kpis.WomenLeaders = 1
              /\ kpis.CommunityColleges = 1
              /\ kpis.Institutions = 1

\* C14: the cutoff comparison is inclusive and rows without a timestamp are
\* left out: a row dated exactly on reference date - days_before_summit is
\* counted (the one-row scenario gives Attendees, Senior Leaders, Women
\* Leaders, Community Colleges and Institutions 1 each), and the rows dated
\* later or not dated change no KPI.
C14_CutoffInclusive ==
    Displayed =>
        /\ CutoffInclusive(kdf1, shown.kpis1, SummitDays[1], shown.days_before,
                           shown.job_filter, shown.institution_filter)
        /\ CutoffInclusive(kdf2, shown.kpis2, SummitDays[2], shown.days_before,
                           shown.job_filter, shown.institution_filter)

\* the scenario, in a dataframe that also has a row dated after the cutoff
C14_Witness ==
    /\ Displayed
    /\ CutoffScenario(kdf1, SummitDays[1] - shown.days_before)
    /\ shown.job_filter = NaN
    /\ shown.institution_filter = "None"
    /\ \E i \in 1..Len(kdf1.rows) : ~InScope(kdf1.rows[i], SummitDays[1] - shown.days_before)
    /\ shown.kpis1.Attendees = 1

\* the rows of df counted as Senior Leaders
SeniorRows(df, summit, days_before, job_filter) ==
    { i \in 1..Len(df.rows) :
        /\ "Title" \in df.columns
        /\ InScope(df.rows[i], summit - days_before)
        /\ PassesJob(df, df.rows[i], job_filter)
        /\ ContainsAny(df.rows[i].title, SeniorKeywordSet) }

\* the cell, lowercased, is female, woman or f
IsWoman(cell) ==
    /\ cell # NaN
    /\ Lower(cell) \in { <<"f","e","m","a","l","e">>, <<"w","o","m","a","n">>, <<"f">> }

\* C15 as stated, for one dataframe: Women Leaders is the number of Senior
\* Leaders rows with such a value in a gender column that is present
WomenInEitherColumn(df, kpis, summit, days_before, job_filter) ==
    /\ kpis.WomenLeaders <= kpis.SeniorLeaders
    /\ kpis.WomenLeaders =
          Cardinality({ i \in SeniorRows(df, summit, days_before, job_filter) :
              \/ "My Gender is:" \in df.columns /\ IsWoman(df.rows[i].gender1)
              \/ "Gender" \in df.columns /\ IsWoman(df.rows[i].gender2) })

\* C15 as stated: Women Leaders counts exactly the Senior Leaders rows whose
\* gender value, lowercased, is female, woman or f, in whichever of
\* 'My Gender is:' and 'Gender' is present, so that Women Leaders <= Senior
\* Leaders and a senior row with such a value in either present gender
\* column is counted.
C15_AsStated ==
    Displayed =>
        /\ WomenInEitherColumn(kdf1, shown.kpis1, SummitDays[1], shown.days_before, shown.job_filter)
        /\ WomenInEitherColumn(kdf2, shown.kpis2, SummitDays[2], shown.days_before, shown.job_filter)

\* the gender cell of a row that lines 396-401 read: that of 'My Gender is:'
\* when the dataframe has the column, else that of 'Gender', else none
GenderRead(df, row) ==
    IF "My Gender is:" \in df.columns THEN row.gender1
    ELSE IF "Gender" \in df.columns THEN row.gender2
    ELSE NaN

WomenInColumnRead(df, kpis, summit, days_before, job_filter) ==
    /\ kpis.WomenLeaders <= kpis.SeniorLeaders
    /\ kpis.SeniorLeaders = Cardinality(SeniorRows(df, summit, days_before, job_filter))
    /\ kpis.WomenLeaders =
          Cardinality({ i \in SeniorRows(df, summit, days_before, job_filter) :
              IsWoman(GenderRead(df, df.rows[i])) })

\* C15, amended: Women Leaders counts exactly the Senior Leaders rows whose
\* gender value, lowercased, is female, woman or f, the gender value being
\* read from 'My Gender is:' when that column is present and from 'Gender'
\* only when it is not; Women Leaders <= Senior Leaders.
C15_GenderColumnPrecedence ==
    Displayed =>
        /\ WomenInColumnRead(kdf1, shown.kpis1, SummitDays[1], shown.days_before, shown.job_filter)
        /\ WomenInColumnRead(kdf2, shown.kpis2, SummitDays[2], shown.days_before, shown.job_filter)

\* both gender columns are present, a senior leader is counted as a woman from
\* 'My Gender is:', and another senior leader who is a woman by 'Gender' alone
\* is not counted
C15_Witness ==
    /\ Displayed
    /\ {"My Gender is:", "Gender"} \subseteq kdf1.columns
    /\ shown.kpis1.WomenLeaders = 1
    /\ \E i \in SeniorRows(kdf1, SummitDays[1], shown.days_before, shown.job_filter) :
          /\ ~IsWoman(kdf1.rows[i].gender1)
          /\ IsWoman(kdf1.rows[i].gender2)

\* the four KPIs that are not institution-derived
AttendeeCounts(kpis) ==
    <<kpis.Attendees, kpis.SeniorLeaders, kpis.WomenLeaders, kpis.Startups>>

\* the values calculate_kpis takes for institution_filter: None for the
\* selection All, as the analysis section passes it, and the three selections
InstitutionFilterValues == { "None", "All", "Higher Education", "K-12" }

\* C17: for every dataset, cutoff and job classification filter, Attendees,
\* Senior Leaders, Women Leaders and Startups are the same for the institution
\* type filter All, Higher Education and K-12 (wherever the call returns).
C17_InstitutionFilterScope ==
    Displayed =>
        \A institution_filter \in InstitutionFilterValues :
            /\ calculate_kpis(kdf1, shown.days_before, SummitDays[1],
                              shown.job_filter, institution_filter) # Raised =>
                  AttendeeCounts(calculate_kpis(kdf1, shown.days_before, SummitDays[1],
                                                shown.job_filter, institution_filter))
                     = AttendeeCounts(shown.kpis1)
            /\ calculate_kpis(kdf2, shown.days_before, SummitDays[2],
                              shown.job_filter, institution_filter) # Raised =>
                  AttendeeCounts(calculate_kpis(kdf2, shown.days_before, SummitDays[2],
                                                shown.job_filter, institution_filter))
                     = AttendeeCounts(shown.kpis2)

\* the filter Higher Education lowered the Institutions count of a dataset
\* with attendees, senior leaders and startups
C17_Witness ==
    /\ Displayed
    /\ shown.institution_filter = "Higher Education"
    /\ shown.kpis1.Attendees > 0
    /\ shown.kpis1.SeniorLeaders > 0
    /\ shown.kpis1.Startups > 0
    /\ shown.kpis1.Institutions <
          calculate_kpis(kdf1, shown.days_before, SummitDays[1], shown.job_filter, "None").Institutions

\* the rows of a dataframe that a trace counts
TraceTotal(df, summit, days_before, job_filter) ==
    Cardinality({ i \in 1..Len(df.rows) :
        /\ InScope(df.rows[i], summit - days_before)
        /\ PassesJob(df, df.rows[i], job_filter) })

TraceIsCumulative(daily, total) ==
    /\ \A i \in 1..(Len(daily) - 1) :
          /\ daily[i].days_before_summit > daily[i + 1].days_before_summit
          /\ daily[i].cumulative <= daily[i + 1].cumulative
    /\ daily # <<>> => daily[Len(daily)].cumulative = total
    /\ daily = <<>> => total = 0

\* C6: in each of the two traces the cumulative counts are non-decreasing along
\* the stored order (days before summit descending) and the last one is the
\* number of rows of that dataset dated on or before its cutoff that pass the
\* job classification filter.
C6_TrendCumulative ==
    Displayed =>
        /\ TraceIsCumulative(shown.daily1,
                             TraceTotal(kdf1, SummitDays[1], shown.days_before, shown.job_filter))
        /\ TraceIsCumulative(shown.daily2,
                             TraceTotal(kdf2, SummitDays[2], shown.days_before, shown.job_filter))

\* both traces have points, the first one on two different days, under a job
\* classification filter that leaves out a row dated before the cutoff
C6_Witness ==
    /\ Displayed
    /\ Len(shown.daily1) >= 2
    /\ Len(shown.daily2) >= 1
    /\ shown.job_filter # NaN
    /\ \E i \in 1..Len(kdf2.rows) :
          /\ InScope(kdf2.rows[i], SummitDays[2] - shown.days_before)
          /\ ~PassesJob(kdf2, kdf2.rows[i], shown.job_filter)


-----------------------------------------------------------------------------
(* Claims about the session and the saved blob.                            *)

\* C3: whenever save_data_to_database or load_data_from_database fails, at
\* any step, every session field has the value it had before the call.
C3_FailureLeavesSessionUntouched ==
    \A u \in Users :
        (last[u].op \in {"save", "load"} /\ ~last[u].ok) => session[u] = last[u].before

\* the number of rows of a dataframe
RowCount(df) == Len(df[CHOOSE col \in DOMAIN df : TRUE])

\* the session state the one record of the table was saved from
SavedState == event_data[CHOOSE i \in Matching(event_data) : TRUE].saved_from

\* C4: after a successful save of a session state S followed by a successful
\* load into a session with any prior state, the loading session's datasets
\* have the row counts of S and its date columns, years and reference dates
\* are those of S, a null reference date of S included.
C4_RoundTrip ==
    \A u \in Users :
        (last[u].op = "load" /\ last[u].ok) =>
            /\ RowCount(session[u].df1) = RowCount(SavedState.df1)
            /\ RowCount(session[u].df2) = RowCount(SavedState.df2)
            /\ session[u].date_column1 = SavedState.date_column1
            /\ session[u].date_column2 = SavedState.date_column2
            /\ session[u].year1 = SavedState.year1
            /\ session[u].year2 = SavedState.year2
            /\ session[u].summit_date1 = SavedState.summit_date1
            /\ session[u].summit_date2 = SavedState.summit_date2

\* C5: after any interleaving of the update and insert requests of the saves
\* of two users, once a request has written, the table holds exactly one
\* record under the key, and its value is the blob written last.
C5_SingletonLastWriterWins ==
    written # NoJson =>
        /\ Cardinality(Matching(event_data)) = 1
        /\ \A i \in Matching(event_data) : event_data[i].data_value = written

\* some value of the file's date column parses under no fixed format and not
\* under the fallback parser
Unparseable(file) ==
    /\ FindDateColumn(DOMAIN file, 1) # NoCol
    /\ \E i \in 1..Len(file[FindDateColumn(DOMAIN file, 1)]) :
          LET cell == file[FindDateColumn(DOMAIN file, 1)][i]
          IN  /\ \A f \in 1..Len(date_formats) : ParseCell(cell, date_formats[f]) = ParseFailed
              /\ ParseCellMixed(cell) = ParseFailed

\* lines 685-686: the analysis section runs
AnalysisRuns(u) ==
    /\ session[u].df1 # NoDf
    /\ session[u].df2 # NoDf
    /\ session[u].date_column1 # NoCol
    /\ session[u].date_column2 # NoCol

\* C9: parse_dates returns (None, None) for a file one of whose dates parses
\* under no fixed format and not under the fallback; after an upload or a
\* force reload whose parse_dates returned (None, None) the dataset and the
\* date column of the slot are what they were; and when the analysis section
\* runs, neither dataset is a file whose parsing failed.
C9_ParseFailureIsFatal ==
    \A u \in Users :
        /\ last[u].op \in {"upload1", "upload2", "force_reload"} =>
              /\ Unparseable(last[u].data) => parse_dates(last[u].data) = NoneNone
              /\ parse_dates(last[u].data) = NoneNone =>
                    /\ ~last[u].ok
                    /\ session[u].df1 = last[u].before.df1
                    /\ session[u].date_column1 = last[u].before.date_column1
                    /\ session[u].df2 = last[u].before.df2
                    /\ session[u].date_column2 = last[u].before.date_column2
        /\ AnalysisRuns(u) =>
              \A file \in Files1 \cup Files2 :
                  parse_dates(file) = NoneNone =>
                      session[u].df1 # file /\ session[u].df2 # file

\* a force reload of a file with a date that is no date has failed, in a
\* session whose two datasets are set and whose analysis section runs
C9_Witness ==
    \E u \in Users :
        /\ last[u].op = "force_reload"
        /\ Unparseable(last[u].data)
        /\ ~last[u].ok
        /\ AnalysisRuns(u)


\* every cell of the column is a Timestamp or NaT, none is text
HoldsTimestamps(df, date_column) ==
    /\ date_column \in DOMAIN df
    /\ \A i \in 1..Len(df[date_column]) :
          /\ DOMAIN df[date_column][i] = {"y", "m", "d"}
          /\ df[date_column][i] # ParseFailed

\* C16: in every session state in which the analysis section runs, whether
\* the datasets came from an upload, a force reload or a load from the
\* database, the date column of df1 and of df2 holds parsed timestamps, not
\* the text of the file or of the blob.
C16_DatesAreParsed ==
    \A u \in Users :
        AnalysisRuns(u) =>
            /\ HoldsTimestamps(session[u].df1, session[u].date_column1)
            /\ HoldsTimestamps(session[u].df2, session[u].date_column2)

\* the results a run of the analysis section over the two dataframes as they
\* were before the first run gives for the parameters now selected
FromTheSources ==
    AnalysisResults(shown.source1, shown.source2, shown.days_before,
                    shown.job_filter, shown.institution_filter)

=============================================================================
